---- MODULE Spec2Model ----
(***************************************************************************)
(* A model of the rsp crate (src/src/lib.rs): the change-event data model, *)
(* the Appendable / Syncable capability traits that build events, the      *)
(* serde serialization of events inside a WsBody frame, and the Service /  *)
(* Listener transport contract.                                            *)
(*                                                                         *)
(* Two specifications are given.  Spec drives the event pipeline: a        *)
(* DoggoRecord is constructed, turned into an Event by one of the trait    *)
(* methods (or by one of the to_event hooks with a caller-chosen           *)
(* build_verb), framed in a WsBody and serialized.  SpecTransport drives   *)
(* publish / listener / recv.                                              *)
(***************************************************************************)
EXTENDS Integers, Sequences, FiniteSets, TLC

VARIABLES
    doggo,      \* Option<DoggoRecord>: the live domain value, None once moved
    arg,        \* the domain value the last conversion consumed (None if none)
    call,       \* the operation that produced `event`
    event,      \* Option<Event>: the event last built
    stash,      \* resources a caller's build_verb closures have cloned away
    body,       \* Option<WsBody<T>>: the frame last built
    json,       \* outcome of the last WsBody::json call
    published,  \* transport: every item handed to a successful publish, in order
    subs,       \* transport: one record per listener created so far
    pubResult   \* transport: the Result of the last publish call

vars == <<doggo, arg, call, event, stash, body, json, published, subs, pubResult>>

eventVars == <<doggo, arg, call, event, stash, body, json>>
transportVars == <<published, subs, pubResult>>

(***************************************************************************)
(* Bounds of the model.                                                    *)
(***************************************************************************)
MaxId == 1            \* DoggoRecord.id and ResourceId range over 0..MaxId
MaxStash == 1         \* resources a caller keeps for later build_verb closures
MaxPublish == 3       \* publish calls in one behaviour of the transport
MaxListeners == 2     \* listeners created in one behaviour of the transport

Ids == 0..MaxId
Names == {"Barky", "Rex"}
Breeds == {"Poodle"}

(***************************************************************************)
(* Option<T>.                                                              *)
(***************************************************************************)
None == [some |-> FALSE]
Some(x) == [some |-> TRUE, val |-> x]

(***************************************************************************)
(* The domain type of the crate's test module and its trait impls.         *)
(***************************************************************************)
DoggoRecord == [id : Ids, name : Names, breed : Breeds]

Collection == {"Dogs", "Cats"}

\* impl Appendable for DoggoRecord: fn collection(&self)
collection(d) == "Dogs"

\* impl Syncable for DoggoRecord: fn id(&self)
id(d) == d.id

(***************************************************************************)
(* The data model.  A resource remembers its Rust type (the two wrappers   *)
(* are distinct types) and the type its ID parameter was instantiated at,  *)
(* because those decide which EventVerb constructors accept it.            *)
(***************************************************************************)
Location(i, t, c) == [id |-> i, txn_id |-> t, collection |-> c]

AppendableResource(idType, l, d) ==
    [type |-> "AppendableResource", idType |-> idType, location |-> l, data |-> d]

UpdatableResource(idType, l, d) ==
    [type |-> "UpdatableResource", idType |-> idType, location |-> l, data |-> d]

ResourceId(n) == [type |-> "ResourceId", n |-> n]

Variants == {"Insert", "Update", "Upsert", "Delete"}

\* the payload type each variant of EventVerb<ID, T, C> wraps
PayloadType(variant) ==
    CASE variant = "Insert" -> "AppendableResource"
      [] variant = "Update" -> "UpdatableResource"
      [] variant = "Upsert" -> "UpdatableResource"
      [] variant = "Delete" -> "ResourceId"

EventVerb(variant, payload) == [variant |-> variant, payload |-> payload]

\* Event::new
Event_new(verb) == [verb |-> verb]

(***************************************************************************)
(* A build_verb closure, as a caller of the to_event hooks can write it.   *)
(* The fields of Location and of the two resource wrappers are private, so *)
(* a closure cannot take the resource it is given apart or build another:  *)
(* it wraps, in a variant of its choice, either the resource it is given   *)
(* (useArg) or a payload it already holds (other), and it may first clone  *)
(* the resource it is given for later use (keep; the wrappers are Clone).  *)
(* The closure's Rust type decides which of these compile: WellTyped.      *)
(***************************************************************************)
Closure(variant, useArg, other, keep) ==
    [variant |-> variant, useArg |-> useArg, other |-> other, keep |-> keep]

\* a variant constructor passed as the closure: EventVerb::Insert, ...
Ctor(variant) == Closure(variant, TRUE, None, FALSE)

BuildVerb(build_verb, resource) ==
    EventVerb(build_verb.variant,
              IF build_verb.useArg THEN resource ELSE build_verb.other)

\* FnOnce(argType<idType, Self, C>) -> EventVerb<idType, Self, C>
WellTyped(build_verb, argType, idType) ==
    LET payloadType == IF build_verb.useArg THEN argType ELSE build_verb.other.type
    IN  /\ PayloadType(build_verb.variant) = payloadType
        /\ (~build_verb.useArg /\ payloadType # "ResourceId")
               => build_verb.other.idType = idType

(***************************************************************************)
(* trait Appendable                                                        *)
(***************************************************************************)
Appendable_location_BadId(self) == Location(Some(0), None, collection(self))

Appendable_location_BadCollection(self) == Location(None, None, "Cats")

\* the Location that Appendable::to_event builds
Appendable_location(self) == Location(None, None, collection(self))

\* the resource that Appendable::to_event hands to build_verb
Appendable_resource(self) ==
    AppendableResource("()", Appendable_location(self), self)

Appendable_to_event(self, build_verb) ==
    LET verb == BuildVerb(build_verb, Appendable_resource(self))
    IN  Event_new(verb)

Appendable_to_insert_event(self) == Appendable_to_event(self, Ctor("Insert"))

(***************************************************************************)
(* trait Syncable: Appendable                                              *)
(***************************************************************************)
Syncable_location_NoId(self) == Location(None, None, collection(self))

\* the Location that Syncable::to_event builds
Syncable_location(self) == Location(Some(id(self)), None, collection(self))

\* the resource that Syncable::to_event hands to build_verb
Syncable_resource(self) ==
    UpdatableResource("u32", Syncable_location(self), self)

Syncable_to_event(self, build_verb) ==
    LET verb == BuildVerb(build_verb, Syncable_resource(self))
    IN  Event_new(verb)

Syncable_to_upsert_event(self) == Syncable_to_event(self, Ctor("Upsert"))

Syncable_to_update_event_OwnLocation(self) ==
    Event_new(EventVerb("Update",
        UpdatableResource("u32", Location(Some(id(self)), Some(0), collection(self)), self)))

Syncable_to_update_event(self) == Syncable_to_event(self, Ctor("Update"))

(***************************************************************************)
(* Serialization.  The derived Serialize impls map a value to a JSON tree  *)
(* (objects keep the declaration order of the fields); serde_json then     *)
(* writes the tree as compact text.  Names and breeds are plain words, so  *)
(* string escaping never applies.                                          *)
(***************************************************************************)
JNull == [j |-> "null"]
JNum(n) == [j |-> "number", num |-> n]
JStr(s) == [j |-> "string", str |-> s]
JObj(fields) == [j |-> "object", fields |-> fields]

Ok(x) == [ok |-> TRUE, val |-> x]
Err(e) == [ok |-> FALSE, err |-> e]

\* Option<ID> for ID = u32 and ID = (): None and the unit value are null
Ser_Id(idType, o) ==
    IF o.some /\ idType = "u32" THEN JNum(o.val) ELSE JNull

\* Option<u32>
Ser_TxnId(o) == IF o.some THEN JNum(o.val) ELSE JNull

\* a unit variant of the (un-renamed) Collection enum is its name
Ser_Collection(c) == JStr(c)

Ser_Location_CamelCase(idType, l) ==
    JObj(<< <<"id", Ser_Id(idType, l.id)>>,
            <<"txnId", Ser_TxnId(l.txn_id)>>,
            <<"collection", Ser_Collection(l.collection)>> >>)

Ser_Location(idType, l) ==
    JObj(<< <<"id", Ser_Id(idType, l.id)>>,
            <<"txn_id", Ser_TxnId(l.txn_id)>>,
            <<"collection", Ser_Collection(l.collection)>> >>)

Ser_DoggoRecord(d) ==
    JObj(<< <<"id", JNum(d.id)>>,
            <<"name", JStr(d.name)>>,
            <<"breed", JStr(d.breed)>> >>)

Ser_UpdatableResource(r) ==
    JObj(<< <<"location", Ser_Location(r.idType, r.location)>>,
            <<"data", Ser_DoggoRecord(r.data)>> >>)

Ser_AppendableResource(r) ==
    JObj(<< <<"location", Ser_Location(r.idType, r.location)>>,
            <<"data", Ser_DoggoRecord(r.data)>> >>)

Ser_ResourceId_AsStruct(r) == JObj(<< <<"0", JNum(r.n)>> >>)

\* a newtype struct serializes as the value it wraps
Ser_ResourceId(r) == JNum(r.n)

Ser_Payload(p) ==
    CASE p.type = "AppendableResource" -> Ser_AppendableResource(p)
      [] p.type = "UpdatableResource" -> Ser_UpdatableResource(p)
      [] p.type = "ResourceId" -> Ser_ResourceId(p)

\* the identifiers of the variants of EventVerb, letter by letter
VariantIdent(variant) ==
    CASE variant = "Insert" -> <<"I", "n", "s", "e", "r", "t">>
      [] variant = "Update" -> <<"U", "p", "d", "a", "t", "e">>
      [] variant = "Upsert" -> <<"U", "p", "s", "e", "r", "t">>
      [] variant = "Delete" -> <<"D", "e", "l", "e", "t", "e">>

Uppercase ==
    [A |-> "a", B |-> "b", C |-> "c", D |-> "d", E |-> "e", F |-> "f",
     G |-> "g", H |-> "h", I |-> "i", J |-> "j", K |-> "k", L |-> "l",
     M |-> "m", N |-> "n", O |-> "o", P |-> "p", Q |-> "q", R |-> "r",
     S |-> "s", T |-> "t", U |-> "u", V |-> "v", W |-> "w", X |-> "x",
     Y |-> "y", Z |-> "z"]

RECURSIVE snake_case_from(_, _)
snake_case_from(ident, i) ==
    IF i > Len(ident) THEN ""
    ELSE LET ch == ident[i]
             upper == ch \in DOMAIN Uppercase
         IN  (IF upper /\ i > 1 THEN "_" ELSE "")
             \o (IF upper THEN Uppercase[ch] ELSE ch)
             \o snake_case_from(ident, i + 1)

\* rename_all = "snake_case" applied to a variant's name
snake_case(variant) == snake_case_from(VariantIdent(variant), 1)

Ser_EventVerb_External(verb) ==
    JObj(<< <<snake_case(verb.variant), Ser_Payload(verb.payload)>> >>)

\* tag = "type", content = "payload": the adjacently tagged representation
Ser_EventVerb(verb) ==
    JObj(<< <<"type", JStr(snake_case(verb.variant))>>,
            <<"payload", Ser_Payload(verb.payload)>> >>)

Ser_Event(e) == JObj(<< <<"verb", Ser_EventVerb(e.verb)>> >>)

(***************************************************************************)
(* WsBody<T: Serialize> frames any serializable T.  Besides Event, the     *)
(* model frames a one-entry map: serde_json refuses a map whose key is not *)
(* a string or a number ("key must be a string"), so T's Serialize impl    *)
(* can fail.                                                               *)
(***************************************************************************)
MapValue(keyKind, n) == [type |-> "Map", keyKind |-> keyKind, value |-> n]

Maps == {MapValue(k, n) : k \in {"string", "tuple"}, n \in Ids}

Ser_Map(m) ==
    IF m.keyKind = "string" THEN Ok(JObj(<< <<"k", JNum(m.value)>> >>))
    ELSE Err("key must be a string")

IsEvent(x) == "verb" \in DOMAIN x

\* T::serialize for the T held by a WsBody
Ser_T(x) == IF IsEvent(x) THEN Ok(Ser_Event(x)) ELSE Ser_Map(x)

\* WsBody::new
WsBody_new(data) == [data |-> data]

\* impl From<T> for WsBody<T>
WsBody_from(data) == WsBody_new(data)

Ser_WsBody(b) ==
    LET inner == Ser_T(b.data)
    IN  IF inner.ok THEN Ok(JObj(<< <<"data", inner.val>> >>)) ELSE inner

RECURSIVE Render(_)
RECURSIVE RenderFields(_, _)
\* the compact text of a JSON tree
Render(v) ==
    CASE v.j = "null" -> "null"
      [] v.j = "number" -> ToString(v.num)
      [] v.j = "string" -> "\"" \o v.str \o "\""
      [] v.j = "object" -> "{" \o RenderFields(v.fields, 1) \o "}"

RenderFields(fields, i) ==
    IF i > Len(fields) THEN ""
    ELSE (IF i > 1 THEN "," ELSE "")
         \o "\"" \o fields[i][1] \o "\":" \o Render(fields[i][2])
         \o RenderFields(fields, i + 1)

\* serde_json::to_string(&self)
to_string(b) ==
    LET tree == Ser_WsBody(b)
    IN  IF tree.ok THEN Ok(Render(tree.val)) ELSE tree

NotCalled == [state |-> "not_called", text |-> ""]
Returned(text) == [state |-> "returned", text |-> text]
Panicked(msg) == [state |-> "panicked", text |-> msg]

\* WsBody::json: Result::expect returns the Ok value and panics on Err
WsBody_json(b) ==
    LET r == to_string(b)
    IN  IF r.ok THEN Returned(r.val)
        ELSE Panicked("Could not serialize WsBody<T> to JSON")

(***************************************************************************)
(* The event pipeline.                                                     *)
(***************************************************************************)
Init ==
    /\ doggo = None
    /\ arg = None
    /\ call = "none"
    /\ event = None
    /\ stash = {}
    /\ body = None
    /\ json = NotCalled
    /\ published = << >>
    /\ subs = << >>
    /\ pubResult = "none"

\* a panic unwinds the calling thread: nothing runs after it
Running == json.state # "panicked"

\* the payloads a closure can hold besides the resource it is given: kept
\* clones and, for a closure written inside the crate, a ResourceId
Held == stash \cup {ResourceId(n) : n \in Ids}

\* the build_verb closures of type FnOnce(argType<idType, ..>) -> EventVerb<idType, ..>
Closures(argType, idType) ==
    {bv \in {Closure(v, TRUE, None, k) : v \in Variants, k \in BOOLEAN}
            \cup {Closure(v, FALSE, o, k) : v \in Variants, o \in Held, k \in BOOLEAN} :
        /\ WellTyped(bv, argType, idType)
        /\ bv.keep => Cardinality(stash) < MaxStash}

\* a conversion consumes self and yields the event; any earlier frame is gone
Converted(name, e) ==
    /\ arg' = doggo
    /\ doggo' = None
    /\ call' = name
    /\ event' = Some(e)
    /\ body' = None
    /\ json' = NotCalled

\* let doggo = DoggoRecord { id, name, breed }
NewDoggo ==
    /\ Running
    /\ doggo = None
    /\ \E d \in DoggoRecord : doggo' = Some(d)
    /\ UNCHANGED <<arg, call, event, stash, body, json, transportVars>>

ToInsertEvent ==
    /\ Running
    /\ doggo.some
    /\ Converted("to_insert_event", Appendable_to_insert_event(doggo.val))
    /\ UNCHANGED <<stash, transportVars>>

ToUpsertEvent ==
    /\ Running
    /\ doggo.some
    /\ Converted("to_upsert_event", Syncable_to_upsert_event(doggo.val))
    /\ UNCHANGED <<stash, transportVars>>

ToUpdateEvent ==
    /\ Running
    /\ doggo.some
    /\ Converted("to_update_event", Syncable_to_update_event(doggo.val))
    /\ UNCHANGED <<stash, transportVars>>

\* <DoggoRecord as Appendable>::to_event(doggo, build_verb)
AppendableToEvent ==
    /\ Running
    /\ doggo.some
    /\ \E bv \in Closures("AppendableResource", "()") :
          /\ Converted("Appendable::to_event", Appendable_to_event(doggo.val, bv))
          /\ stash' = IF bv.keep THEN stash \cup {Appendable_resource(doggo.val)}
                      ELSE stash
    /\ UNCHANGED transportVars

\* <DoggoRecord as Syncable>::to_event(doggo, build_verb)
SyncableToEvent ==
    /\ Running
    /\ doggo.some
    /\ \E bv \in Closures("UpdatableResource", "u32") :
          /\ Converted("Syncable::to_event", Syncable_to_event(doggo.val, bv))
          /\ stash' = IF bv.keep THEN stash \cup {Syncable_resource(doggo.val)}
                      ELSE stash
    /\ UNCHANGED transportVars

\* Event::new(EventVerb::Delete(ResourceId(n)))
DeleteEvent ==
    /\ Running
    /\ \E n \in Ids :
          /\ event' = Some(Event_new(EventVerb("Delete", ResourceId(n))))
          /\ call' = "Event::new"
          /\ arg' = None
          /\ body' = None
          /\ json' = NotCalled
    /\ UNCHANGED <<doggo, stash, transportVars>>

\* WsBody::new(event)
WsBodyNew ==
    /\ Running
    /\ event.some
    /\ body' = Some(WsBody_new(event.val))
    /\ event' = None
    /\ json' = NotCalled
    /\ UNCHANGED <<doggo, arg, call, stash, transportVars>>

\* WsBody::from(event)
WsBodyFrom ==
    /\ Running
    /\ event.some
    /\ body' = Some(WsBody_from(event.val))
    /\ event' = None
    /\ json' = NotCalled
    /\ UNCHANGED <<doggo, arg, call, stash, transportVars>>

\* WsBody::new(map) for a T that is not an Event
WsBodyNewMap ==
    /\ Running
    /\ \E m \in Maps : body' = Some(WsBody_new(m))
    /\ event' = None
    /\ arg' = None
    /\ call' = "none"
    /\ json' = NotCalled
    /\ UNCHANGED <<doggo, stash, transportVars>>

\* body.json()
WsBodyJson ==
    /\ Running
    /\ body.some
    /\ json.state = "not_called"
    /\ json' = WsBody_json(body.val)
    /\ UNCHANGED <<doggo, arg, call, event, stash, body, transportVars>>

Next ==
    \/ NewDoggo
    \/ ToInsertEvent
    \/ ToUpsertEvent
    \/ ToUpdateEvent
    \/ AppendableToEvent
    \/ SyncableToEvent
    \/ DeleteEvent
    \/ WsBodyNew
    \/ WsBodyFrom
    \/ WsBodyNewMap
    \/ WsBodyJson

Spec == Init /\ [][Next]_vars

(***************************************************************************)
(* The transport.  The crate declares Service and Listener and implements  *)
(* neither; the transport below is the one its specification describes:    *)
(* publish hands the item to every current subscription, a new listener    *)
(* starts with nothing queued, and recv takes the oldest queued item or    *)
(* stays suspended while there is none.                                    *)
(***************************************************************************)
Items == DoggoRecord

Listeners == DOMAIN subs

NewSubscription == [since |-> Len(published), queue |-> << >>, got |-> << >>]

Deliver_Prepend(sub, item) == [sub EXCEPT !.queue = <<item>> \o @]

\* one subscription takes a published item
Deliver(sub, item) == [sub EXCEPT !.queue = Append(@, item)]

Take_Both(l, m) ==
    IF Len(subs[m].queue) > 0
    THEN [subs[m] EXCEPT !.queue = Tail(@), !.got = Append(@, Head(subs[m].queue))]
    ELSE subs[m]

\* what recv on listener l makes of subscription m
Take(l, m) ==
    IF m = l
    THEN [subs[m] EXCEPT !.queue = Tail(@), !.got = Append(@, Head(subs[m].queue))]
    ELSE subs[m]

\* Service::publish(event) returning Ok(())
Publish ==
    /\ Len(published) < MaxPublish
    /\ \E item \in Items :
          /\ published' = Append(published, item)
          /\ subs' = [l \in Listeners |-> Deliver(subs[l], item)]
    /\ pubResult' = "Ok"
    /\ UNCHANGED eventVars

\* Service::publish(event) returning Err(()): nothing is handed over
PublishErr ==
    /\ Len(published) < MaxPublish
    /\ pubResult' = "Err"
    /\ UNCHANGED <<published, subs, eventVars>>

\* Service::listener()
NewListener ==
    /\ Len(subs) < MaxListeners
    /\ subs' = Append(subs, NewSubscription)
    /\ UNCHANGED <<published, pubResult, eventVars>>

\* Listener::recv() returning Ok(item)
Recv(l) ==
    /\ Len(subs[l].queue) > 0
    /\ subs' = [m \in Listeners |-> Take(l, m)]
    /\ UNCHANGED <<published, pubResult, eventVars>>

NextTransport ==
    \/ Publish
    \/ PublishErr
    \/ NewListener
    \/ \E l \in Listeners : Recv(l)

SpecTransport == Init /\ [][NextTransport]_vars

(***************************************************************************)
(* Properties of the event pipeline, checked under Spec.                   *)
(***************************************************************************)
TraitMethods == {"to_insert_event", "to_upsert_event", "to_update_event"}
TraitHooks == {"Appendable::to_event", "Syncable::to_event"}

\* the verb of the event last built
Built == event.val.verb

\* the event inside the frame last built
Framed == body.val.data

FramesEvent == body.some /\ IsEvent(body.val.data)

\* C1: the event to_insert_event(d) returns has verb Insert, and its
\* resource has location id = None, txn_id = None, collection = d.collection()
\* and data = d.
C1_InsertEvent ==
    (call = "to_insert_event" /\ event.some) =>
        /\ Built.variant = "Insert"
        /\ Built.payload.location.id = None
        /\ Built.payload.location.txn_id = None
        /\ Built.payload.location.collection = collection(arg.val)
        /\ Built.payload.data = arg.val

C1_Witness ==
    /\ call = "to_insert_event"
    /\ event.some
    /\ arg.val.id = 1

\* C2: to_upsert_event(d) and to_update_event(d) return an event of verb
\* Upsert and Update respectively, whose location has id = Some(d.id()),
\* txn_id = None and collection = d.collection().
C2_SyncEvent ==
    (call \in {"to_upsert_event", "to_update_event"} /\ event.some) =>
        /\ Built.variant = (IF call = "to_upsert_event" THEN "Upsert" ELSE "Update")
        /\ Built.payload.location.id = Some(id(arg.val))
        /\ Built.payload.location.txn_id = None
        /\ Built.payload.location.collection = collection(arg.val)

C2_Witness ==
    /\ call = "to_update_event"
    /\ event.some
    /\ Built.payload.location.id = Some(1)

VerbTag == [Insert |-> "insert", Update |-> "update", Upsert |-> "upsert",
            Delete |-> "delete"]

\* C3: the serialized verb of any event is an object of exactly the two
\* fields type and payload, type being the snake_case name of the variant
\* and payload the serialization of the value the variant wraps; no two
\* variants share a type tag.
C3_VerbTag ==
    (json.state = "returned" /\ FramesEvent) =>
        /\ json.text = "{\"data\":{\"verb\":{\"type\":\""
                       \o VerbTag[Framed.verb.variant]
                       \o "\",\"payload\":"
                       \o Render(Ser_Payload(Framed.verb.payload))
                       \o "}}}"
        /\ \A v \in Variants \ {Framed.verb.variant} :
               snake_case(v) # snake_case(Framed.verb.variant)

C3_Witness ==
    /\ json.state = "returned"
    /\ FramesEvent
    /\ Framed.verb.variant = "Update"

\* C4: for an event built from d by to_insert_event, to_update_event or
\* to_upsert_event, WsBody::new(event).json() is the text
\* {"data":{"verb":{"type":T,"payload":{"location":{"id":I,"txn_id":null,
\* "collection":C},"data":{"id":..,"name":..,"breed":..}}}}} with I null for
\* insert and d.id() otherwise, C = d.collection() and d's own field names.
C4_Frame ==
    (json.state = "returned" /\ call \in TraitMethods) =>
        LET d == arg.val
            tag == CASE call = "to_insert_event" -> "insert"
                     [] call = "to_update_event" -> "update"
                     [] call = "to_upsert_event" -> "upsert"
            idText == IF call = "to_insert_event" THEN "null" ELSE ToString(id(d))
        IN  json.text =
                "{\"data\":{\"verb\":{\"type\":\"" \o tag
                \o "\",\"payload\":{\"location\":{\"id\":" \o idText
                \o ",\"txn_id\":null,\"collection\":\"" \o collection(d)
                \o "\"},\"data\":{\"id\":" \o ToString(d.id)
                \o ",\"name\":\"" \o d.name
                \o "\",\"breed\":\"" \o d.breed \o "\"}}}}}"

\* the upsert snapshot of the crate's test conversion_works
C4_Witness ==
    /\ call = "to_upsert_event"
    /\ json.text = "{\"data\":{\"verb\":{\"type\":\"upsert\",\"payload\":{\"location\":{\"id\":1,\"txn_id\":null,\"collection\":\"Dogs\"},\"data\":{\"id\":1,\"name\":\"Barky\",\"breed\":\"Poodle\"}}}}}"

\* C5: WsBody::json hands its caller a recoverable error when the value it
\* holds cannot be serialized, and the text otherwise; it never panics.
C5_JsonRecoverable ==
    json.state # "not_called" =>
        IF Ser_WsBody(body.val).ok THEN json.state = "returned"
        ELSE json.state = "error"

\* C6: a Delete event wrapping ResourceId(n) serializes with the bare
\* number n as its payload: no location object, no data object.
C6_DeletePayload ==
    (json.state = "returned" /\ FramesEvent /\ Framed.verb.variant = "Delete") =>
        json.text = "{\"data\":{\"verb\":{\"type\":\"delete\",\"payload\":"
                    \o ToString(Framed.verb.payload.n) \o "}}}"

C6_Witness ==
    /\ FramesEvent
    /\ Framed.verb = EventVerb("Delete", ResourceId(1))
    /\ json.text = "{\"data\":{\"verb\":{\"type\":\"delete\",\"payload\":1}}}"

\* C9: every event built through the trait layer, the to_event hooks with
\* any build_verb a caller can write included, has location id None when
\* its verb is Insert and Some when its verb is Update or Upsert.
C9_IdPresence ==
    (call \in TraitMethods \cup TraitHooks /\ event.some) =>
        /\ Built.variant = "Insert" => ~Built.payload.location.id.some
        /\ Built.variant \in {"Update", "Upsert"} => Built.payload.location.id.some

\* a hook whose closure wrapped a resource it had kept from an earlier call
C9_Witness ==
    /\ call = "Syncable::to_event"
    /\ event.some
    /\ Built.variant = "Update"
    /\ Built.payload.data # arg.val

\* C10: to_update_event(d) and to_upsert_event(d) wrap one and the same
\* UpdatableResource and differ in the variant alone; each is
\* Syncable::to_event(d, its variant constructor), and to_insert_event(d) is
\* Appendable::to_event(d, EventVerb::Insert).
C10_SameResource ==
    /\ (call = "to_update_event" /\ event.some) =>
          /\ Built.variant = "Update"
          /\ Built.payload = Syncable_to_upsert_event(arg.val).verb.payload
          /\ event.val = Syncable_to_event(arg.val, Ctor("Update"))
    /\ (call = "to_upsert_event" /\ event.some) =>
          /\ Built.variant = "Upsert"
          /\ Built.payload = Syncable_to_update_event(arg.val).verb.payload
          /\ event.val = Syncable_to_event(arg.val, Ctor("Upsert"))
    /\ (call = "to_insert_event" /\ event.some) =>
          event.val = Appendable_to_event(arg.val, Ctor("Insert"))

C10_Witness ==
    /\ call = "to_upsert_event"
    /\ event.some
    /\ arg.val.name = "Rex"

(***************************************************************************)
(* Properties of the transport, checked under SpecTransport.               *)
(***************************************************************************)
\* the items published since the subscription was created
Since(sub) == SubSeq(published, sub.since + 1, Len(published))

\* C7: what a listener has received is, in order, the items published
\* since its creation, up to the number it has received.
C7_PublishOrder ==
    \A l \in Listeners :
        subs[l].got = SubSeq(Since(subs[l]), 1, Len(subs[l].got))

C7_Witness ==
    \E l \in Listeners :
        /\ Len(subs[l].got) = 3
        /\ subs[l].got[1] # subs[l].got[2]
        /\ subs[l].got[2] # subs[l].got[3]

\* a recv on l takes the head of l's queue and touches no other listener
RecvIsolated ==
    \A l \in Listeners :
        subs'[l].got # subs[l].got =>
            /\ Len(subs[l].queue) > 0
            /\ subs'[l].got = Append(subs[l].got, Head(subs[l].queue))
            /\ subs'[l].queue = Tail(subs[l].queue)
            /\ \A m \in Listeners \ {l} : subs'[m] = subs[m]

\* C8: each listener holds, received or still queued, exactly the items
\* published since its own creation (none from before), whatever the other
\* listeners do; a recv moves one item of its own listener and leaves every
\* other listener as it was.
C8_FanOutIsolation ==
    /\ [](\A l \in Listeners : subs[l].got \o subs[l].queue = Since(subs[l]))
    /\ [][RecvIsolated]_vars

C8_Witness ==
    /\ Len(subs) = 2
    /\ subs[1].since = 0
    /\ subs[2].since = 1
    /\ Len(subs[1].got) = 2
    /\ Len(subs[2].got) = 0
    /\ Len(subs[2].queue) = 2

====
